---- MODULE Spec2Model ----
(***************************************************************************)
(* The authenticated request pipeline of the JobBuddy frontend:            *)
(* ApiClient (request, refreshToken, updateTokens, processQueue) and the   *)
(* auth store (login, register, logout).                                   *)
(*                                                                         *)
(* Scheduling model.  The program runs on one event loop.  A step of the   *)
(* model is one task of that loop (a call made by the user interface or    *)
(* the arrival of one network response) together with every continuation  *)
(* (microtask) it makes runnable: promise reactions run to completion      *)
(* before the next task starts, so no other task can be observed between   *)
(* them.  Reading a response body after its headers changes no shared      *)
(* state and is folded into the arrival of the response.                   *)
(***************************************************************************)
EXTENDS Naturals, Sequences, FiniteSets, TLC

\* Number of pipeline invocations (calls of ApiClient.request) in one run.
MaxInv == 3
\* Number of distinct token values the backend hands out.
MaxTok == 2
\* Length of the endpoints enumerated for formatUrl.
MaxEndpointLen == 4
\* Number of successive applications of formatUrl.
MaxFormat == 2

--------------------------------------------------------------------------
(* Text.  A string is a sequence of characters; a character is a record so *)
(* that every text has one shape.  Structural characters are single        *)
(* characters; a JSON member ("key":value) is one unit, `n` holding its    *)
(* numeric payload (a token value, a user id).                             *)

Ch(c) == [c |-> c, n |-> 0]
Mem(c, n) == [c |-> c, n |-> n]
Lit(s) == << Ch(s) >>
EmptyStr == << >>
\* JavaScript null where a string is expected; no text of the model equals it.
Null == << Ch("null") >>
Falsy(s) == s = Null \/ s = EmptyStr

MemberKeys == {"ok", "message", "error", "user", "accessToken", "refreshToken"}

IsSpace(ch) == ch.c = " "

RECURSIVE TrimStart(_)
TrimStart(s) ==
    IF s # << >> /\ IsSpace(Head(s)) THEN TrimStart(Tail(s)) ELSE s

RECURSIVE TrimEnd(_)
TrimEnd(s) ==
    IF s # << >> /\ IsSpace(s[Len(s)]) THEN TrimEnd(SubSeq(s, 1, Len(s) - 1)) ELSE s

Trim(s) == TrimEnd(TrimStart(s))

StartsWithBrace(s) == s # << >> /\ Head(s).c = "{"

--------------------------------------------------------------------------
(* URLs.  A URL or an endpoint is a sequence of one-character strings.     *)

StartsWith(s, prefix) == Len(s) >= Len(prefix) /\ SubSeq(s, 1, Len(prefix)) = prefix
EndsWith(s, suffix) ==
    Len(s) >= Len(suffix) /\ SubSeq(s, Len(s) - Len(suffix) + 1, Len(s)) = suffix

Http == << "h", "t", "t", "p" >>
Slash == << "/" >>
\* 'http://localhost:3000/api', used when VITE_API_URL is not set.
DefaultApiUrl ==
    << "h", "t", "t", "p", ":", "/", "/", "l", "o", "c", "a", "l", "h", "o", "s", "t",
       ":", "3", "0", "0", "0", "/", "a", "p", "i" >>

FormatUrlAlwaysJoins(apiUrl, e) ==
    LET cleanEndpoint == IF StartsWith(e, Slash) THEN Tail(e) ELSE e
        baseUrl == IF EndsWith(apiUrl, Slash) THEN SubSeq(apiUrl, 1, Len(apiUrl) - 1)
                   ELSE apiUrl
    IN  baseUrl \o Slash \o cleanEndpoint

\* formatUrl (lines 167-180), API_URL being the configured base.
FormatUrl(apiUrl, e) ==
    IF StartsWith(e, Http) THEN e
    ELSE LET cleanEndpoint == IF StartsWith(e, Slash) THEN Tail(e) ELSE e
             baseUrl == IF EndsWith(apiUrl, Slash) THEN SubSeq(apiUrl, 1, Len(apiUrl) - 1)
                        ELSE apiUrl
         IN  baseUrl \o Slash \o cleanEndpoint

ApiPrefix == << "/", "a", "p", "i" >>

\* formatApiPath of src/lib/api.ts (lines 16-28).
FormatApiPath(apiUrl, path) ==
    LET formattedPath == IF StartsWith(path, Slash) THEN path ELSE Slash \o path
    IN  IF EndsWith(apiUrl, ApiPrefix)
        THEN apiUrl \o formattedPath
        ELSE apiUrl \o ApiPrefix \o formattedPath

--------------------------------------------------------------------------
(* Values.  tokens: 0 is an absent field; NoTokens stands for null,        *)
(* undefined and an object without either field, which every read of the   *)
(* program (tokens?.accessToken || null) treats alike.                      *)

NoTokens == [accessToken |-> 0, refreshToken |-> 0]
NoUser == 0

\* A decoded body.  isNull: the JavaScript value null.
NullData ==
    [isNull |-> TRUE, ok |-> FALSE, message |-> EmptyStr, error |-> EmptyStr,
     user |-> NoUser, tokens |-> NoTokens]
EmptyObject == [NullData EXCEPT !.isNull = FALSE]

\* One member of a JSON object written into the decoded value.
SetMember(d, ch) ==
    CASE ch.c = "ok" -> [d EXCEPT !.ok = TRUE]
      [] ch.c = "message" -> [d EXCEPT !.message = Lit("m")]
      [] ch.c = "error" -> [d EXCEPT !.error = Lit("e")]
      [] ch.c = "user" -> [d EXCEPT !.user = ch.n]
      [] ch.c = "accessToken" -> [d EXCEPT !.tokens.accessToken = ch.n]
      [] ch.c = "refreshToken" -> [d EXCEPT !.tokens.refreshToken = ch.n]
      [] OTHER -> d

RECURSIVE Members(_, _)
Members(d, s) == IF s = << >> THEN d ELSE Members(SetMember(d, Head(s)), Tail(s))

\* JSON.parse: leading and trailing whitespace is skipped, then one object
\* "{" member* "}"; any other text is a SyntaxError.
JSONParse(text) ==
    LET t == Trim(text)
        inner == SubSeq(t, 2, Len(t) - 1)
        wellFormed ==
            /\ Len(t) >= 2
            /\ t[1].c = "{"
            /\ t[Len(t)].c = "}"
            /\ \A k \in 1..Len(inner) : inner[k].c \in MemberKeys
    IN  IF wellFormed
        THEN [threw |-> FALSE, value |-> Members(EmptyObject, inner)]
        ELSE [threw |-> TRUE, value |-> NullData]

--------------------------------------------------------------------------
(* Responses of the backend.  threw: fetch rejected (timeout, abort, DNS,  *)
(* connection refused).  contentType Null: the header is absent.           *)

NetworkError ==
    [threw |-> TRUE, status |-> 0, statusText |-> EmptyStr, contentType |-> Null,
     body |-> EmptyStr]
Resp(status, statusText, contentType, body) ==
    [threw |-> FALSE, status |-> status, statusText |-> statusText,
     contentType |-> contentType, body |-> body]
NoResponse == Resp(0, EmptyStr, Null, EmptyStr)

ResponseOk(r) == r.status >= 200 /\ r.status <= 299

ApplicationJson == Lit("application/json")
TextJson == Lit("text/json")
TextPlain == Lit("text/plain")
\* contentType.includes('application/json') || contentType.includes('text/json')
IncludesJson(contentType) == contentType \in {ApplicationJson, TextJson}

Result(data, error, status) == [data |-> data, error |-> error, status |-> status]
NoResult == Result(NullData, Null, 1000)

AuthRequired == Result(NullData, Lit("Authentication required"), 401)
AuthFailed == Result(NullData, Lit("Authentication failed. Please log in again."), 401)
NetworkFailure == Result(NullData, Lit("Failed to fetch"), 0)

ParseResponseSwallows(response, responseText) ==
    LET contentType == response.contentType
        asJson ==
            /\ contentType # Null /\ contentType # EmptyStr
            /\ \/ IncludesJson(contentType)
               \/ (responseText # EmptyStr /\ StartsWithBrace(Trim(responseText)))
        parsed == IF responseText # EmptyStr THEN JSONParse(responseText)
                  ELSE JSONParse(response.body)
        data ==
            IF asJson
            THEN (IF parsed.threw THEN NullData ELSE parsed.value)
            ELSE (IF responseText # EmptyStr
                  THEN [EmptyObject EXCEPT !.message = responseText]
                  ELSE NullData)
        error ==
            IF ResponseOk(response) THEN Null
            ELSE IF ~Falsy(data.message) THEN data.message
            ELSE IF ~Falsy(data.error) THEN data.error
            ELSE IF ~Falsy(response.statusText) THEN response.statusText
            ELSE Lit("An error occurred")
    IN  [data |-> data, error |-> error, status |-> response.status]

\* The text the parse step works on.  responseText is read once, from the
\* first response (lines 309-317), and is still that text after a retry.
ParsedBody(response, responseText) ==
    IF responseText # EmptyStr THEN JSONParse(responseText) ELSE JSONParse(response.body)

\* Lines 372-413: decode the body and classify the outcome.
ParseResponse(response, responseText) ==
    LET contentType == response.contentType
        asJson ==
            /\ contentType # Null /\ contentType # EmptyStr
            /\ \/ IncludesJson(contentType)
               \/ (responseText # EmptyStr /\ StartsWithBrace(Trim(responseText)))
        parsed == ParsedBody(response, responseText)
        data ==
            IF asJson
            THEN (IF parsed.threw THEN NullData ELSE parsed.value)
            ELSE (IF responseText # EmptyStr
                  THEN [EmptyObject EXCEPT !.message = responseText]
                  ELSE NullData)
        error0 == IF asJson /\ parsed.threw THEN Lit("Invalid JSON response") ELSE Null
        error ==
            IF ResponseOk(response) THEN error0
            ELSE IF ~Falsy(data.message) THEN data.message
            ELSE IF ~Falsy(data.error) THEN data.error
            ELSE IF ~Falsy(response.statusText) THEN response.statusText
            ELSE Lit("An error occurred")
    IN  Result(data, error, response.status)

--------------------------------------------------------------------------
(* State.                                                                  *)

VARIABLES
    store,          \* useAuthStore: user, tokens, isAuthenticated, isLoading, error
    isRefreshing,   \* ApiClient.isRefreshing
    refreshPromise, \* ApiClient.refreshPromise: 0 is null, else a promise of `promises`
    requestsQueue,  \* ApiClient.requestsQueue
    promises,       \* every refresh promise created so far: "pending", "true", "false"
    exchanges,      \* POST users/refresh-token calls in flight
    refreshCalls,   \* number of POST users/refresh-token calls the backend has seen
    inv,            \* the invocations of ApiClient.request
    API_URL,        \* the configured base URL
    endpoint,       \* the endpoint given to formatUrl
    urls,           \* what successive calls of formatUrl returned, each call
                    \* after the first being given the previous result
    conversion      \* applicationsApi.convertDraft: the call in progress and
                    \* the application on the server

formatter == << API_URL, endpoint, urls >>

vars ==
    << store, isRefreshing, refreshPromise, requestsQueue, promises, exchanges,
       refreshCalls, inv, API_URL, endpoint, urls, conversion >>

Invocations == 1..MaxInv
TokenValues == 1..MaxTok
Callers == {"api", "login", "register", "logout"}

\* An invocation of request.  pc: "new" (not called yet), "fetch1" (awaiting
\* the original fetch), "refresh" (awaiting refreshToken()), "fetch2"
\* (awaiting the retry fetch), "done" (returned).  sent: the Authorization
\* token of each physical request issued, 0 for none.  response: the last
\* answer received (a rejected fetch included); responseText: the body read
\* from the first response.  awaits: the refresh promise awaited.
\* The other fields record what happened, for the properties: role (how
\* refreshToken was entered: "starter" or "joiner"), refreshes (calls of
\* refreshToken), refreshSuccess (what refreshToken returned), during (a
\* refresh exchange was in flight when refreshToken was called), early (no
\* invocation had returned yet when this one was made).
\* headers: the Authorization header among the headers the caller supplied, 0 for none.
Fresh ==
    [pc |-> "new", caller |-> "api", requiresAuth |-> TRUE,
     skipRefreshToken |-> FALSE, headers |-> 0, sent |-> << >>, response |-> NoResponse,
     responseText |-> EmptyStr, awaits |-> 0, role |-> "none", refreshes |-> 0,
     refreshSuccess |-> "none", during |-> FALSE, early |-> FALSE,
     result |-> NoResult]

InitialStore ==
    [user |-> NoUser, tokens |-> NoTokens, isAuthenticated |-> FALSE,
     isLoading |-> FALSE, error |-> Null]

\* The persisted session found at start-up: none, or the one a login stored.
LoggedIn(t) ==
    [InitialStore EXCEPT !.user = 1, !.isAuthenticated = TRUE,
                         !.tokens = [accessToken |-> t, refreshToken |-> t]]

\* No conversion of a draft has been asked for; the application is a draft.
\* calls: the sub-calls made so far, each update with the status it asks for.
NoConversion ==
    [pc |-> "idle", draftId |-> "string", sender_email |-> FALSE,
     sender_password |-> FALSE, serverStatus |-> "draft", calls |-> << >>,
     emailed |-> FALSE, returned |-> "none"]

\* The client as constructed: nothing in flight, no invocation made.
ClientInit ==
    /\ isRefreshing = FALSE
    /\ refreshPromise = 0
    /\ requestsQueue = << >>
    /\ promises = << >>
    /\ exchanges = {}
    /\ refreshCalls = 0
    /\ inv = [i \in Invocations |-> Fresh]

Init ==
    /\ store \in {InitialStore, LoggedIn(1)}
    /\ ClientInit
    /\ API_URL = DefaultApiUrl
    /\ endpoint = << >>
    /\ urls = << >>
    /\ conversion = NoConversion

--------------------------------------------------------------------------
(* The auth store and the client's accessors.                              *)

GetAuthToken(st) == st.tokens.accessToken
GetRefreshToken(st) == st.tokens.refreshToken

UpdateTokens(st, tokens) == [st EXCEPT !.tokens = tokens]

ClearedKeepsTokens(st) == [st EXCEPT !.user = NoUser, !.isAuthenticated = FALSE]

\* logout's finally block.
Cleared(st) ==
    [st EXCEPT !.user = NoUser, !.tokens = NoTokens, !.isAuthenticated = FALSE]

LoginSettleClearsOnFailure(st, result) ==
    IF ~Falsy(result.error)
    THEN [Cleared(st) EXCEPT !.error = result.error, !.isLoading = FALSE]
    ELSE IF result.data.tokens.accessToken = 0
    THEN [st EXCEPT !.error = Lit("No authentication token received"),
                    !.isLoading = FALSE]
    ELSE IF result.data.user = NoUser
    THEN [st EXCEPT !.error = Lit("Invalid response data"), !.isLoading = FALSE]
    ELSE [st EXCEPT !.user = result.data.user, !.tokens = result.data.tokens,
                    !.isAuthenticated = TRUE, !.isLoading = FALSE]

\* login and register after `await apiClient.post(...)`.
LoginSettle(st, result) ==
    IF ~Falsy(result.error)
    THEN [st EXCEPT !.error = result.error, !.isLoading = FALSE]
    ELSE IF result.data.tokens.accessToken = 0
    THEN [st EXCEPT !.error = Lit("No authentication token received"),
                    !.isLoading = FALSE]
    ELSE IF result.data.user = NoUser
    THEN [st EXCEPT !.error = Lit("Invalid response data"), !.isLoading = FALSE]
    ELSE [st EXCEPT !.user = result.data.user, !.tokens = result.data.tokens,
                    !.isAuthenticated = TRUE, !.isLoading = FALSE]

ContinueClearsOnError(st, caller, result) ==
    CASE caller \in {"login", "register"} -> LoginSettle(st, result)
      [] caller = "logout" -> Cleared(st)
      [] OTHER -> IF Falsy(result.error) THEN st ELSE Cleared(st)

ContinueLogoutChecksError(st, caller, result) ==
    CASE caller \in {"login", "register"} -> LoginSettle(st, result)
      [] caller = "logout" -> IF Falsy(result.error) THEN Cleared(st) ELSE st
      [] OTHER -> st

\* What the caller of request does with its result once request returns.
Continue(st, caller, result) ==
    CASE caller \in {"login", "register"} -> LoginSettle(st, result)
      [] caller = "logout" -> Cleared(st)
      [] OTHER -> st

\* The first slot not used yet, 0 when all are used.
FreeSlot(iv) ==
    IF \E i \in Invocations : iv[i].pc = "new"
    THEN CHOOSE i \in Invocations :
            iv[i].pc = "new" /\ \A j \in Invocations : iv[j].pc = "new" => i <= j
    ELSE 0

StartNoShortCircuit(st, iv, caller, requiresAuth, skipRefreshToken) ==
    [Fresh EXCEPT !.caller = caller, !.requiresAuth = requiresAuth,
                  !.skipRefreshToken = skipRefreshToken,
                  !.early = \A j \in Invocations : iv[j].pc # "done",
                  !.pc = "fetch1",
                  !.sent = << IF requiresAuth THEN GetAuthToken(st) ELSE 0 >>]

\* The synchronous part of request (lines 245-289): the short-circuit without
\* a token, else the original fetch is issued.
Start(st, iv, caller, requiresAuth, skipRefreshToken) ==
    LET token == GetAuthToken(st)
        base == [Fresh EXCEPT !.caller = caller, !.requiresAuth = requiresAuth,
                              !.skipRefreshToken = skipRefreshToken,
                              !.early = \A j \in Invocations : iv[j].pc # "done"]
    IN  IF requiresAuth /\ token = 0
        THEN [base EXCEPT !.pc = "done", !.result = AuthRequired]
        ELSE [base EXCEPT !.pc = "fetch1",
                          !.sent = << IF requiresAuth THEN token ELSE 0 >>]

\* The Authorization header of the original request (lines 257-274): the
\* caller's headers are spread first and the token is assigned over them.
OriginalAuthorization(headers, requiresAuth, token) ==
    IF requiresAuth THEN token ELSE headers

\* The Authorization header of the retry (lines 341-345): the token is
\* written first and the caller's headers are spread over it.
RetryAuthorization(headers, token) ==
    IF headers # 0 THEN headers ELSE token

\* request called with an Authorization header among options.headers.
StartWithHeaders(st, iv, caller, requiresAuth, skipRefreshToken, headers) ==
    LET rec == Start(st, iv, caller, requiresAuth, skipRefreshToken)
    IN  IF rec.pc = "done" THEN [rec EXCEPT !.headers = headers]
        ELSE [rec EXCEPT !.headers = headers,
                         !.sent = << OriginalAuthorization(headers, requiresAuth,
                                                           GetAuthToken(st)) >>]

\* useAuthStore.getState().logout() up to its first suspension: with an access
\* token stored it posts users/logout and waits; without one it clears at once.
LogoutPossible(st, iv) == GetAuthToken(st) = 0 \/ FreeSlot(iv) # 0
LogoutStart(st, iv) ==
    IF GetAuthToken(st) # 0
    THEN [store |-> st,
          inv |-> [iv EXCEPT ![FreeSlot(iv)] = Start(st, iv, "logout", TRUE, FALSE)]]
    ELSE [store |-> Cleared(st), inv |-> iv]

--------------------------------------------------------------------------
(* The pipeline.  The operators below work on a record m of the whole      *)
(* state, so that one task and the continuations it releases compose into  *)
(* one step.  m.overflow is set when the step needs an invocation slot and  *)
(* none is left (the bound MaxInv); such a step is not taken.               *)

Machine ==
    [store |-> store, isRefreshing |-> isRefreshing, refreshPromise |-> refreshPromise,
     requestsQueue |-> requestsQueue, promises |-> promises, exchanges |-> exchanges,
     refreshCalls |-> refreshCalls, inv |-> inv, overflow |-> FALSE]

Apply(m) ==
    /\ ~m.overflow
    /\ store' = m.store
    /\ isRefreshing' = m.isRefreshing
    /\ refreshPromise' = m.refreshPromise
    /\ requestsQueue' = m.requestsQueue
    /\ promises' = m.promises
    /\ exchanges' = m.exchanges
    /\ refreshCalls' = m.refreshCalls
    /\ inv' = m.inv
    /\ UNCHANGED << formatter, conversion >>

\* logout() called from refreshToken, not awaited.
CallLogout(m) ==
    IF LogoutPossible(m.store, m.inv)
    THEN LET lo == LogoutStart(m.store, m.inv)
         IN  [m EXCEPT !.store = lo.store, !.inv = lo.inv]
    ELSE [m EXCEPT !.overflow = TRUE]

\* request returns `result` to its caller, which then continues.
Return(m, i, result) ==
    [m EXCEPT !.inv[i].pc = "done",
              !.inv[i].result = result,
              !.store = Continue(m.store, m.inv[i].caller, result)]

NeedsRefreshWhatever(rec, status) == status = 401

\* Line 320: the condition under which a response leads to a token refresh.
NeedsRefresh(rec, status) ==
    status = 401 /\ rec.requiresAuth /\ ~rec.skipRefreshToken

JoinsNever(m) == FALSE

\* Line 186: a caller of refreshToken joins the refresh in flight.
Joins(m) == m.isRefreshing

RefreshFinallyKeepsFlag(m) == [m EXCEPT !.refreshPromise = 0]

\* Lines 227-230: the finally block of the refresh.
RefreshFinally(m) == [m EXCEPT !.isRefreshing = FALSE, !.refreshPromise = 0]

AfterRefreshRetryAnyway(m, i, success) ==
    LET rec == m.inv[i]
        token == GetAuthToken(m.store)
        m1 == [m EXCEPT !.inv[i].refreshSuccess = IF success THEN "true" ELSE "false"]
    IN  IF token # 0
        THEN [m1 EXCEPT !.inv[i].pc = "fetch2",
                        !.inv[i].sent = Append(rec.sent, token)]
        ELSE Return(m1, i, ParseResponse(rec.response, rec.responseText))

\* Lines 326-370: request after `await this.refreshToken()` gave `success`.
\* Without success it returns the failure; with it, it reads the token again
\* and retries, or, when no token is stored, goes on with the first response.
AfterRefresh(m, i, success) ==
    LET rec == m.inv[i]
        token == GetAuthToken(m.store)
        m1 == [m EXCEPT !.inv[i].refreshSuccess = IF success THEN "true" ELSE "false"]
    IN  IF ~success THEN Return(m1, i, AuthFailed)
        ELSE IF token # 0
        THEN [m1 EXCEPT !.inv[i].pc = "fetch2",
                        !.inv[i].sent =
                            Append(rec.sent, RetryAuthorization(rec.headers, token))]
        ELSE Return(m1, i, ParseResponse(rec.response, rec.responseText))

\* The promise reactions that run once a refresh promise is settled: every
\* invocation awaiting it goes on with its value.  The starter also runs
\* processQueue (lines 233-235).
RECURSIVE Drain(_, _)
Drain(m, k) ==
    IF k > MaxInv THEN m
    ELSE IF m.inv[k].pc = "refresh" /\ m.inv[k].awaits # 0
            /\ m.promises[m.inv[k].awaits] # "pending"
    THEN LET mq == IF m.inv[k].role = "starter"
                   THEN [m EXCEPT !.requestsQueue = << >>] ELSE m
         IN  Drain(AfterRefresh(mq, k, m.promises[m.inv[k].awaits] = "true"), k + 1)
    ELSE Drain(m, k + 1)

\* The call of refreshToken by invocation i is counted.
Entering(m, i) ==
    [m EXCEPT !.inv[i].pc = "refresh",
              !.inv[i].refreshes = @ + 1,
              !.inv[i].during = m.exchanges # {}]

JoinRefreshNoWait(m, i) ==
    AfterRefresh([Entering(m, i) EXCEPT !.inv[i].role = "joiner",
                                        !.inv[i].awaits = m.refreshPromise], i, FALSE)

\* Lines 186-188: the caller is handed the promise of the refresh in flight.
\* `await` of null (no promise stored) gives a falsy value at once.
JoinRefresh(m, i) ==
    IF m.refreshPromise = 0
    THEN AfterRefresh([Entering(m, i) EXCEPT !.inv[i].role = "joiner"], i, FALSE)
    ELSE [Entering(m, i) EXCEPT !.inv[i].role = "joiner",
                                !.inv[i].awaits = m.refreshPromise]

StartRefreshNoPromise(m, i) ==
    LET p == Len(m.promises) + 1
        refreshToken == GetRefreshToken(m.store)
        started == [Entering(m, i) EXCEPT !.inv[i].role = "starter",
                                          !.inv[i].awaits = p,
                                          !.isRefreshing = TRUE]
    IN  IF refreshToken = 0
        THEN [RefreshFinally(CallLogout(started)) EXCEPT
                 !.promises = Append(m.promises, "false"),
                 !.refreshPromise = p]
        ELSE [started EXCEPT
                 !.promises = Append(m.promises, "pending"),
                 !.exchanges = @ \cup {[promise |-> p, refreshToken |-> refreshToken]},
                 !.refreshCalls = @ + 1]

StartRefreshNoFlag(m, i) ==
    LET p == Len(m.promises) + 1
        refreshToken == GetRefreshToken(m.store)
        started == [Entering(m, i) EXCEPT !.inv[i].role = "starter",
                                          !.inv[i].awaits = p]
    IN  IF refreshToken = 0
        THEN [RefreshFinally(CallLogout(started)) EXCEPT
                 !.promises = Append(m.promises, "false"),
                 !.refreshPromise = p]
        ELSE [started EXCEPT
                 !.promises = Append(m.promises, "pending"),
                 !.refreshPromise = p,
                 !.exchanges = @ \cup {[promise |-> p, refreshToken |-> refreshToken]},
                 !.refreshCalls = @ + 1]

\* Lines 190-231 up to the first suspension: the flag is set and the promise
\* created; its executor runs at once.  Without a refresh token it calls
\* logout, resolves false and runs its finally block before the promise is
\* stored; with one it issues POST users/refresh-token and suspends.
StartRefresh(m, i) ==
    LET p == Len(m.promises) + 1
        refreshToken == GetRefreshToken(m.store)
        started == [Entering(m, i) EXCEPT !.inv[i].role = "starter",
                                          !.inv[i].awaits = p,
                                          !.isRefreshing = TRUE]
    IN  IF refreshToken = 0
        THEN [RefreshFinally(CallLogout(started)) EXCEPT
                 !.promises = Append(m.promises, "false"),
                 !.refreshPromise = p]
        ELSE [started EXCEPT
                 !.promises = Append(m.promises, "pending"),
                 !.refreshPromise = p,
                 !.exchanges = @ \cup {[promise |-> p, refreshToken |-> refreshToken]},
                 !.refreshCalls = @ + 1]

RefreshTokenReusesOutcome(m, i) ==
    IF Joins(m) THEN JoinRefresh(m, i)
    ELSE IF \E p \in 1..Len(m.promises) : m.promises[p] = "true"
    THEN AfterRefresh([Entering(m, i) EXCEPT !.inv[i].role = "joiner"], i, TRUE)
    ELSE StartRefresh(m, i)

\* Lines 185-236 up to the first suspension, called by invocation i.
RefreshToken(m, i) == IF Joins(m) THEN JoinRefresh(m, i) ELSE StartRefresh(m, i)

\* Lines 289-370 and 414-421: the original fetch of invocation i settles.
OnResponse(m, i, r) ==
    LET m1 == [m EXCEPT !.inv[i].response = r, !.inv[i].responseText = r.body]
    IN  IF r.threw THEN Return(m1, i, NetworkFailure)
        ELSE IF NeedsRefresh(m.inv[i], r.status) THEN Drain(RefreshToken(m1, i), 1)
        ELSE Return(m1, i, ParseResponse(r, r.body))

OnRetryResponseAgain(m, i, r) ==
    LET m1 == [m EXCEPT !.inv[i].response = r]
    IN  IF r.threw THEN Return(m1, i, NetworkFailure)
        ELSE IF NeedsRefresh(m.inv[i], r.status) THEN Drain(RefreshToken(m1, i), 1)
        ELSE Return(m1, i, ParseResponse(r, m.inv[i].responseText))

OnRetryResponseUncaught(m, i, r) ==
    LET m1 == [m EXCEPT !.inv[i].response = r]
    IN  IF r.threw THEN [m1 EXCEPT !.inv[i].pc = "rejected"]
        ELSE Return(m1, i, ParseResponse(r, m.inv[i].responseText))

\* Lines 365-413 and 414-421: the retry fetch of invocation i settles.
OnRetryResponse(m, i, r) ==
    LET m1 == [m EXCEPT !.inv[i].response = r]
    IN  IF r.threw THEN Return(m1, i, NetworkFailure)
        ELSE Return(m1, i, ParseResponse(r, m.inv[i].responseText))

\* Lines 202-230: the refresh exchange x settles with r.
OnRefreshResponse(m, x, r) ==
    LET parsed == JSONParse(r.body)
        gone == [m EXCEPT !.exchanges = @ \ {x}]
        failed == [RefreshFinally(CallLogout(gone)) EXCEPT !.promises[x.promise] = "false"]
        succeeded ==
            [RefreshFinally([gone EXCEPT
                !.store = UpdateTokens(gone.store, parsed.value.tokens)])
             EXCEPT !.promises[x.promise] = "true"]
    IN  IF r.threw \/ ~ResponseOk(r) \/ parsed.threw \/ parsed.value.isNull
        THEN Drain(failed, 1)
        ELSE Drain(succeeded, 1)

--------------------------------------------------------------------------
(* The backend: what it may answer to each kind of request.                *)

BodyOk == << Ch("{"), Ch("ok"), Ch("}") >>
BodyMessage == << Ch("{"), Ch("message"), Ch("}") >>
BodyPlain == << Ch("p") >>
BodyBad == << Ch("{"), Ch("p") >>
\* {"user": u, "tokens": {"accessToken": at, "refreshToken": rt}}; a member
\* whose value is 0 is left out.
BodyAuth(u, at, rt) ==
    << Ch("{") >>
    \o (IF u = 0 THEN << >> ELSE << Mem("user", u) >>)
    \o (IF at = 0 THEN << >> ELSE << Mem("accessToken", at) >>)
    \o (IF rt = 0 THEN << >> ELSE << Mem("refreshToken", rt) >>)
    \o << Ch("}") >>

Ok200(body) == Resp(200, Lit("OK"), ApplicationJson, body)
Unauthorized == Resp(401, Lit("Unauthorized"), ApplicationJson, BodyMessage)
Forbidden == Resp(403, Lit("Forbidden"), ApplicationJson, BodyMessage)
ServerError == Resp(500, Lit("Internal Server Error"), TextPlain, BodyPlain)

ApiResponses == {Ok200(BodyOk), Unauthorized, NetworkError}

LoginResponses ==
    {Ok200(BodyAuth(1, t, t)) : t \in TokenValues}
    \cup {Unauthorized}

RefreshResponses ==
    {Ok200(BodyAuth(0, t, t)) : t \in TokenValues}
    \cup {Ok200(BodyAuth(0, 1, 0)), Ok200(BodyAuth(0, 0, 1)), Ok200(BodyOk),
          Ok200(BodyBad), Forbidden, NetworkError}

ResponsesFor(caller) ==
    IF caller \in {"login", "register"} THEN LoginResponses ELSE ApiResponses

--------------------------------------------------------------------------
(* Actions: the tasks of the event loop.                                   *)

\* A component calls apiClient.request (get, post, put, patch, delete).
Request(requiresAuth, skipRefreshToken) ==
    /\ FreeSlot(inv) # 0
    /\ inv' = [inv EXCEPT ![FreeSlot(inv)] =
                  Start(store, inv, "api", requiresAuth, skipRefreshToken)]
    /\ UNCHANGED << store, isRefreshing, refreshPromise, requestsQueue, promises,
                    exchanges, refreshCalls, formatter, conversion >>

\* useAuthStore login / register up to the await of apiClient.post.
Login(caller) ==
    /\ FreeSlot(inv) # 0
    /\ store' = [store EXCEPT !.isLoading = TRUE, !.error = Null]
    /\ inv' = [inv EXCEPT ![FreeSlot(inv)] =
                  Start(store, inv, caller, FALSE, FALSE)]
    /\ UNCHANGED << isRefreshing, refreshPromise, requestsQueue, promises,
                    exchanges, refreshCalls, formatter, conversion >>

\* The user logs out: useAuthStore logout up to its first suspension.
Logout == Apply(CallLogout(Machine))

\* The original fetch of invocation i settles.
Response(i, r) ==
    /\ inv[i].pc = "fetch1"
    /\ Apply(OnResponse(Machine, i, r))

\* The retry fetch of invocation i settles.
RetryResponse(i, r) ==
    /\ inv[i].pc = "fetch2"
    /\ Apply(OnRetryResponse(Machine, i, r))

\* A refresh exchange settles.
RefreshResponse(x, r) ==
    /\ x \in exchanges
    /\ Apply(OnRefreshResponse(Machine, x, r))

Next ==
    \/ \E ra \in BOOLEAN, sk \in BOOLEAN : Request(ra, sk)
    \/ \E c \in {"login", "register"} : Login(c)
    \/ Logout
    \/ \E i \in Invocations : \E r \in ResponsesFor(inv[i].caller) : Response(i, r)
    \/ \E i \in Invocations : \E r \in ResponsesFor(inv[i].caller) : RetryResponse(i, r)
    \/ \E x \in exchanges : \E r \in RefreshResponses : RefreshResponse(x, r)

Spec == Init /\ [][Next]_vars

--------------------------------------------------------------------------
(* One operation against every kind of answer.  The user interface makes   *)
(* one call (a request, a login, a register or a logout) on a start-up     *)
(* session; the backend answers the requests of apiClient callers with any *)
(* status, status text, Content-Type and body.  Whatever the operation     *)
(* sets off afterwards (refresh, logout after a failed refresh) runs as in *)
(* Spec.                                                                   *)

BodyError == << Ch("{"), Ch("error"), Ch("}") >>
BodyBoth == << Ch("{"), Ch("message"), Ch("error"), Ch("}") >>
\* A JSON object behind leading whitespace.
BodySpaced == << Ch(" "), Ch("{"), Ch("ok"), Ch("}") >>

\* statusText is empty over HTTP/2.
AnyResponses ==
    {Resp(s, st, ct, b) :
        s \in {200, 401, 500},
        st \in {Lit("s"), EmptyStr},
        ct \in {ApplicationJson, TextPlain, Null},
        b \in {EmptyStr, BodyOk, BodyMessage, BodyError, BodyBoth, BodyPlain, BodyBad,
               BodySpaced}}
    \cup {NetworkError}

\* What users/login and users/register may answer: the session, a body
\* that lacks the user or a token, a body that is not the session at all, a
\* refusal, a failure of the server or of the network.
LoginAnswers ==
    LoginResponses
    \cup {Ok200(BodyAuth(0, 1, 1)), Ok200(BodyAuth(1, 0, 1)), Ok200(BodyAuth(1, 1, 0)),
          Ok200(BodyAuth(0, 0, 0)), Ok200(BodyOk), Ok200(BodyBad), Ok200(EmptyStr),
          Resp(200, Lit("OK"), TextPlain, BodyPlain), ServerError, NetworkError}

AnyResponsesFor(caller) ==
    CASE caller = "api" -> AnyResponses
      [] caller = "logout" -> ApiResponses \cup {ServerError}
      [] OTHER -> LoginAnswers

NothingCalled == \A i \in Invocations : inv[i].pc = "new"

\* An Authorization value of the caller's own, distinct from every token.
CallerAuthorization == MaxTok + 1

FirstRequest(requiresAuth, skipRefreshToken) ==
    /\ NothingCalled
    /\ Request(requiresAuth, skipRefreshToken)

\* The first call is a request with an Authorization header of the caller's.
FirstRequestWithHeaders(requiresAuth, skipRefreshToken) ==
    /\ NothingCalled
    /\ inv' = [inv EXCEPT ![1] =
                  StartWithHeaders(store, inv, "api", requiresAuth, skipRefreshToken,
                                   CallerAuthorization)]
    /\ UNCHANGED << store, isRefreshing, refreshPromise, requestsQueue, promises,
                    exchanges, refreshCalls, formatter, conversion >>

FirstLogin(caller) ==
    /\ NothingCalled
    /\ Login(caller)

FirstLogout ==
    /\ NothingCalled
    /\ Logout

OneNext ==
    \/ \E ra \in BOOLEAN, sk \in BOOLEAN : FirstRequest(ra, sk)
    \/ \E ra \in BOOLEAN, sk \in BOOLEAN : FirstRequestWithHeaders(ra, sk)
    \/ \E c \in {"login", "register"} : FirstLogin(c)
    \/ FirstLogout
    \/ \E i \in Invocations : \E r \in AnyResponsesFor(inv[i].caller) : Response(i, r)
    \/ \E i \in Invocations : \E r \in AnyResponsesFor(inv[i].caller) : RetryResponse(i, r)
    \/ \E x \in exchanges : \E r \in RefreshResponses : RefreshResponse(x, r)

OneSpec == Init /\ [][OneNext]_vars

\* The backend answers every POST users/refresh-token, or the call fails.
\* Nothing of the kind is assumed of the other calls: the client sets no
\* timer on a fetch, so a call the backend does not answer stays pending.
RefreshSettles == \E x \in exchanges : \E r \in RefreshResponses : RefreshResponse(x, r)

LiveSpec == OneSpec /\ WF_vars(RefreshSettles)

--------------------------------------------------------------------------
(* The failure chain.  A logged-in component makes one request, which is   *)
(* answered 401; from then on the backend rejects every refresh exchange   *)
(* and answers 401 to every POST users/logout.  The backend answers every  *)
(* call it receives, which is the fairness condition.                      *)

Rejections401 ==
    {r \in AnyResponses : ~r.threw /\ r.status = 401 /\ r.body \in {BodyMessage, EmptyStr}}

RefreshRejections == {Forbidden, NetworkError, Ok200(BodyBad)}

ChainInit ==
    /\ store = LoggedIn(1)
    /\ ClientInit
    /\ API_URL = DefaultApiUrl
    /\ endpoint = << >>
    /\ urls = << >>
    /\ conversion = NoConversion

ChainNext ==
    \/ FirstRequest(TRUE, FALSE)
    \/ \E i \in Invocations : \E r \in Rejections401 : Response(i, r)
    \/ \E x \in exchanges : \E r \in RefreshRejections : RefreshResponse(x, r)

ChainSpec == ChainInit /\ [][ChainNext]_vars /\ WF_vars(ChainNext)

--------------------------------------------------------------------------
(* Converting a draft (lib/api.ts).  applicationsApi.convertDraft makes    *)
(* its sub-calls one after the other; each is one exchange with the        *)
(* backend.  update, getById and sendEmail catch every error of their own  *)
(* and return false or null, so none of them throws.                       *)

\* What one PUT /applications/:id can come to: the status is written and
\* success is returned; it is not written and the call returns false (non-2xx,
\* success false, network failure before the server); it is written and the
\* call still returns false (the response is lost or is not JSON).
UpdateOutcomes ==
    {[applied |-> TRUE, success |-> TRUE], [applied |-> FALSE, success |-> FALSE],
     [applied |-> TRUE, success |-> FALSE]}

\* The forms of draftId (lines 388-392): the id as a string, an object that
\* holds it as _id or as $oid, and an object that holds neither.  The last is
\* passed on as it is, and update throws "Invalid application ID" before any
\* fetch (lines 331-341), so it returns false with nothing written.
DraftIds == {"string", "_id", "$oid", "object"}
UpdateOutcomesFor(c) ==
    IF c.draftId = "object" THEN {[applied |-> FALSE, success |-> FALSE]}
    ELSE UpdateOutcomes

\* POST /send-email likewise: delivered or not, and what sendEmail returns.
SendOutcomes ==
    {[delivered |-> TRUE, success |-> TRUE], [delivered |-> FALSE, success |-> FALSE],
     [delivered |-> TRUE, success |-> FALSE]}

\* convertDraft issues applicationsApi.update(finalId, {status}) and awaits it.
IssueUpdate(c, status, pc) ==
    [c EXCEPT !.pc = pc, !.calls = Append(@, [op |-> "update", status |-> status])]

\* Line 407: emailSettings && emailSettings.sender_email && emailSettings.sender_password
HasEmailSettings(c) == c.sender_email /\ c.sender_password

\* The component calls convertDraft (lines 385-398): up to the await of the
\* update to 'processing'.
ConvertDraft(draftId, sender_email, sender_password) ==
    /\ conversion.pc = "idle"
    /\ conversion' =
          IssueUpdate([conversion EXCEPT !.draftId = draftId,
                                         !.sender_email = sender_email,
                                         !.sender_password = sender_password],
                      "processing", "updateProcessing")
    /\ UNCHANGED << store, isRefreshing, refreshPromise, requestsQueue, promises,
                    exchanges, refreshCalls, inv, formatter >>

\* The update awaited by convertDraft settles (update, lines 326-364) and
\* convertDraft goes on to its next await or returns.
\*   'processing' (398-402): failure throws into the catch block, which
\*       issues the revert to 'draft' (454-461); success goes on to getById
\*       (410) or, without email settings, to the revert (445).
\*   'sent' (438-439): convertDraft returns what the update returned.
\*   'draft' (415, 443, 445, 454-461): convertDraft returns false.
UpdateSettles(o) ==
    LET c == conversion
        status == c.calls[Len(c.calls)].status
        c1 == IF o.applied THEN [c EXCEPT !.serverStatus = status] ELSE c
    IN  /\ c.pc \in {"updateProcessing", "updateSent", "revert", "revertCatch"}
        /\ conversion' =
              CASE c.pc = "updateProcessing" ->
                     IF ~o.success THEN IssueUpdate(c1, "draft", "revertCatch")
                     ELSE IF HasEmailSettings(c)
                     THEN [c1 EXCEPT !.pc = "getById",
                                     !.calls = Append(@, [op |-> "getById",
                                                          status |-> "none"])]
                     ELSE IssueUpdate(c1, "draft", "revert")
                [] c.pc = "updateSent" ->
                     [c1 EXCEPT !.pc = "done",
                                !.returned = IF o.success THEN "true" ELSE "false"]
                [] OTHER -> [c1 EXCEPT !.pc = "done", !.returned = "false"]
        /\ UNCHANGED << store, isRefreshing, refreshPromise, requestsQueue, promises,
                        exchanges, refreshCalls, inv, formatter >>

\* getById settles (lines 524-581): the application, or null on any failure.
GetByIdSettles(found) ==
    /\ conversion.pc = "getById"
    /\ conversion' =
          IF found
          THEN [conversion EXCEPT !.pc = "sendEmail",
                                  !.calls = Append(@, [op |-> "sendEmail",
                                                       status |-> "none"])]
          ELSE IssueUpdate(conversion, "draft", "revert")
    /\ UNCHANGED << store, isRefreshing, refreshPromise, requestsQueue, promises,
                    exchanges, refreshCalls, inv, formatter >>

\* sendEmail settles (lines 780-800; convertDraft lines 422-444).
SendEmailSettles(o) ==
    /\ conversion.pc = "sendEmail"
    /\ conversion' =
          LET c1 == [conversion EXCEPT !.emailed = o.delivered]
          IN  IF o.success THEN IssueUpdate(c1, "sent", "updateSent")
              ELSE IssueUpdate(c1, "draft", "revert")
    /\ UNCHANGED << store, isRefreshing, refreshPromise, requestsQueue, promises,
                    exchanges, refreshCalls, inv, formatter >>

\* The calls of lib/api.ts read the access token of the auth store and the
\* configured base URL; they change neither.
DraftInit ==
    /\ store \in {InitialStore, LoggedIn(1)}
    /\ ClientInit
    /\ API_URL = DefaultApiUrl
    /\ endpoint = << >>
    /\ urls = << >>
    /\ conversion = NoConversion

DraftNext ==
    \/ \E id \in DraftIds, se \in BOOLEAN, sp \in BOOLEAN : ConvertDraft(id, se, sp)
    \/ \E o \in UpdateOutcomesFor(conversion) : UpdateSettles(o)
    \/ \E found \in BOOLEAN : GetByIdSettles(found)
    \/ \E o \in SendOutcomes : SendEmailSettles(o)

DraftSpec == DraftInit /\ [][DraftNext]_vars

--------------------------------------------------------------------------
(* The formatter alone: formatUrl applied to an endpoint under a           *)
(* configured base URL, then to its own result.                            *)

HostApi == << "h", "t", "t", "p", ":", "/", "/", "h", "o", "s", "t", "/", "a", "p", "i" >>
Health == << "h", "e", "a", "l", "t", "h" >>
HttpScheme == Http \o << ":", "/", "/" >>
HttpsScheme == Http \o << "s", ":", "/", "/" >>

\* VITE_API_URL is any non-empty text: absolute with or without a trailing
\* slash, or a path on the origin of the page.
BaseUrls == {DefaultApiUrl, HostApi, HostApi \o Slash, << "/", "a", "p", "i" >>}

EndpointChars == {"h", "t", "p", "/", "a"}

Endpoints ==
    UNION {[1..k -> EndpointChars] : k \in 0..MaxEndpointLen}
    \cup {Health, Slash \o Health, HostApi \o Slash \o Health,
          HttpsScheme \o Health, HttpScheme \o Health \o Slash}

FormatInit ==
    /\ store = InitialStore
    /\ ClientInit
    /\ API_URL \in BaseUrls
    /\ endpoint \in Endpoints
    /\ urls = << >>
    /\ conversion = NoConversion

\* formatUrl is called: on the endpoint first, then on what it returned.
Format ==
    /\ Len(urls) < MaxFormat
    /\ urls' = Append(urls, FormatUrl(API_URL,
                                      IF urls = << >> THEN endpoint ELSE urls[Len(urls)]))
    /\ UNCHANGED << store, isRefreshing, refreshPromise, requestsQueue, promises,
                    exchanges, refreshCalls, inv, API_URL, endpoint, conversion >>

FormatSpec == FormatInit /\ [][Format]_vars

--------------------------------------------------------------------------
(* formatApiPath alone, under a configured base URL.                       *)

Host == << "h", "t", "t", "p", ":", "/", "/", "h", "o", "s", "t" >>
\* 'http://127.0.0.1:8081/api', used by src/lib/api.ts when VITE_API_URL is not set.
LibDefaultApiUrl ==
    << "h", "t", "t", "p", ":", "/", "/", "1", "2", "7", ".", "0", ".", "0", ".", "1",
       ":", "8", "0", "8", "1", "/", "a", "p", "i" >>

\* Base URLs ending with /api, ending with /api/, and without an API prefix.
ApiBaseUrls == {LibDefaultApiUrl, HostApi, HostApi \o Slash, Host}

\* The paths given to formatApiPath: relative, with or without a leading slash.
Paths == {e \in Endpoints : ~StartsWith(e, HttpScheme) /\ ~StartsWith(e, HttpsScheme)}

ApiPathInit ==
    /\ store = InitialStore
    /\ ClientInit
    /\ API_URL \in ApiBaseUrls
    /\ endpoint \in Paths
    /\ urls = << >>
    /\ conversion = NoConversion

\* formatApiPath is called on the path.
FormatPath ==
    /\ urls = << >>
    /\ urls' = << FormatApiPath(API_URL, endpoint) >>
    /\ UNCHANGED << store, isRefreshing, refreshPromise, requestsQueue, promises,
                    exchanges, refreshCalls, inv, API_URL, endpoint, conversion >>

ApiPathSpec == ApiPathInit /\ [][FormatPath]_vars

TypeOK ==
    /\ isRefreshing \in BOOLEAN
    /\ refreshPromise \in 0..Len(promises)
    /\ \A i \in Invocations : inv[i].pc \in {"new", "fetch1", "refresh", "fetch2", "done"}

--------------------------------------------------------------------------
(* Properties.                                                             *)

RECURSIVE SentUpTo(_)
SentUpTo(k) == IF k = 0 THEN 0 ELSE Len(inv[k].sent) + SentUpTo(k - 1)
\* Every fetch made so far: the physical requests of the invocations and the
\* refresh exchanges.
FetchCount == SentUpTo(MaxInv) + refreshCalls

Called(i) == inv[i].pc # "new"
Returned(i) == inv[i].pc = "done"
\* Invocation i received 401 on its original request and went to the coordinator.
Refreshed(i) == inv[i].refreshes > 0

\* The invocations whose 401 was handled while no refresh exchange was in flight.
IdleArrivals == {i \in Invocations : Refreshed(i) /\ ~inv[i].during}

C2_AtMostOneRefreshInFlight ==
    /\ [](Cardinality(exchanges) <= 1)
    /\ [][isRefreshing => refreshCalls' = refreshCalls]_vars

\* A second caller has entered refreshToken while the exchange is in flight.
C2_Witness ==
    /\ Cardinality(exchanges) = 1
    /\ isRefreshing
    /\ \E i \in Invocations : inv[i].role = "joiner" /\ inv[i].pc = "refresh"

\* C3: a caller that joined a refresh in flight gets the value the starter
\* of that refresh gets, and gets it only once that refresh has settled: the
\* promise it awaits is the starter's, its exchange is over, and the value
\* returned is the value the promise was settled with.
C3_JoinerSharesOutcome ==
    \A j \in Invocations :
        inv[j].role = "joiner" =>
            /\ \E i \in Invocations :
                  /\ inv[i].role = "starter"
                  /\ inv[i].awaits = inv[j].awaits
                  /\ inv[i].refreshSuccess = inv[j].refreshSuccess
            /\ inv[j].refreshSuccess # "none" =>
                  /\ promises[inv[j].awaits] = inv[j].refreshSuccess
                  /\ \A x \in exchanges : x.promise # inv[j].awaits

\* A joiner has been resumed with the outcome of the refresh it joined.
C3_Witness ==
    \E j \in Invocations :
        inv[j].role = "joiner" /\ inv[j].refreshSuccess = "true"

\* C4: one invocation issues at most two physical requests and calls
\* refreshToken at most once; when the retry is answered 401 too, that 401
\* is the final result.
C4_AtMostOneRetry ==
    \A i \in Invocations :
        /\ Len(inv[i].sent) <= 2
        /\ inv[i].refreshes <= 1
        /\ (Len(inv[i].sent) = 2 /\ inv[i].pc # "fetch2"
            /\ ~inv[i].response.threw /\ inv[i].response.status = 401)
           => (Returned(i) /\ inv[i].result.status = 401
               /\ inv[i].result.error # Null)

\* The retry of an invocation was answered 401 and the invocation returned.
C4_Witness ==
    \E i \in Invocations :
        /\ Returned(i) /\ Len(inv[i].sent) = 2 /\ inv[i].refreshes = 1
        /\ inv[i].response.status = 401 /\ inv[i].result.status = 401

\* C5 (as claimed): after a 401, a successful refresh and a retry, the
\* result is built from the retry response alone: its status, its decoded
\* body and the error derived from them.
C5_ResultFromRetryResponse ==
    \A i \in Invocations :
        (Returned(i) /\ Len(inv[i].sent) = 2 /\ ~inv[i].response.threw)
        => inv[i].result = ParseResponse(inv[i].response, inv[i].response.body)

\* C6: a call with requiresAuth while no access token is stored returns
\* {data: null, error: "Authentication required", status: 401} at once; the
\* step makes no fetch and does not enter refreshToken, and the invocation
\* never does anything afterwards.
C6_NoTokenShortCircuit ==
    /\ [][\A i \in Invocations :
            (inv[i].pc = "new" /\ inv'[i].pc # "new" /\ inv'[i].requiresAuth
             /\ GetAuthToken(store) = 0)
            => /\ inv'[i].pc = "done"
               /\ inv'[i].result = AuthRequired
               /\ FetchCount' = FetchCount
               /\ promises' = promises
               /\ isRefreshing' = isRefreshing]_vars
    /\ [](\A i \in Invocations :
            inv[i].result = AuthRequired
            => Returned(i) /\ inv[i].sent = << >> /\ inv[i].refreshes = 0)

\* A call was short-circuited for want of an access token.
C6_Witness ==
    \E i \in Invocations :
        Returned(i) /\ inv[i].requiresAuth /\ inv[i].result = AuthRequired

\* C7 (as claimed): refreshToken entered while no refresh token is stored
\* returns false, leaves the session fully cleared and makes no fetch.
C7_NoRefreshTokenClearsSession ==
    [][\A i \in Invocations :
          (inv[i].pc = "fetch1" /\ inv'[i].role = "starter"
           /\ GetRefreshToken(store) = 0)
          => /\ inv'[i].refreshSuccess = "false"
             /\ store'.tokens = NoTokens
             /\ store'.user = NoUser
             /\ FetchCount' = FetchCount]_vars

\* C8 (as claimed): when the refresh exchange fails, the session is cleared
\* by the time the callers of refreshToken get their result.
C8_FailedRefreshClearsSession ==
    [][\A i \in Invocations :
          (inv[i].pc = "refresh" /\ inv'[i].refreshSuccess = "false")
          => GetAuthToken(store') = 0]_vars

\* C9: an invocation to which refreshToken returned false has returned
\* {data: null, error: "Authentication failed. Please log in again.",
\* status: 401} and has issued its original request only.
C9_FailedRefreshNoRetry ==
    \A i \in Invocations :
        inv[i].refreshSuccess = "false"
        => Returned(i) /\ inv[i].result = AuthFailed /\ Len(inv[i].sent) = 1

\* The refresh exchange of an invocation failed and the invocation returned.
C9_Witness ==
    \E i \in Invocations :
        /\ inv[i].role = "starter" /\ inv[i].during = FALSE
        /\ inv[i].refreshSuccess = "false" /\ Returned(i)
        /\ promises[inv[i].awaits] = "false"

--------------------------------------------------------------------------
(* Properties of one operation (OneSpec).                                  *)

\* The result of invocation i was computed from a response (lines 372-413):
\* it is neither a short-circuit nor a transport failure.
Classified(i) ==
    /\ Returned(i)
    /\ inv[i].sent # << >>
    /\ ~inv[i].response.threw
    /\ inv[i].refreshSuccess # "false"

\* The error the claim derives from a response: the message member of its
\* body, else the error member, else the status text.
ClaimedError(r) ==
    LET parsed == JSONParse(r.body)
        d == IF parsed.threw THEN NullData ELSE parsed.value
    IN  IF ~Falsy(d.message) THEN d.message
        ELSE IF ~Falsy(d.error) THEN d.error
        ELSE r.statusText

\* C11 (as claimed): a result whose status is outside 200..299 has a
\* non-null error, and when the result was computed from a final response
\* with such a status the error is the message member of that response's
\* body, else its error member, else the status text.
C11_ErrorFromFinalResponse ==
    \A i \in Invocations :
        Returned(i) =>
            /\ ~(inv[i].result.status \in 200..299) => ~Falsy(inv[i].result.error)
            /\ (Classified(i) /\ ~ResponseOk(inv[i].response))
               => inv[i].result.error = ClaimedError(inv[i].response)

\* C12 (as claimed): whenever refreshToken returns true to an invocation,
\* the store holds an access token and a refresh token at the moment the
\* invocation resumes.
C12_RefreshTrueStoresPair ==
    [][\A i \in Invocations :
          (inv[i].pc = "refresh" /\ inv'[i].refreshSuccess = "true")
          => /\ GetAuthToken(store') # 0
             /\ GetRefreshToken(store') # 0]_vars

\* C13 (as claimed): in every reachable state the access token and the
\* refresh token are both present or both absent.
C13_BothOrNeither ==
    (GetAuthToken(store) = 0) <=> (GetRefreshToken(store) = 0)

C15_EveryCallReturns ==
    \A i \in Invocations : Called(i) ~> Returned(i)

\* An invocation made with requiresAuth = false or skipRefreshToken = true.
NoRefreshOption(i) == Called(i) /\ (~inv[i].requiresAuth \/ inv[i].skipRefreshToken)

\* C16 (as claimed): an invocation with requiresAuth = false or
\* skipRefreshToken = true never calls refreshToken and, once returned, has
\* issued exactly one physical request; a 401 response is returned as an
\* error result with status 401.
C16_ExactlyOneRequest ==
    \A i \in Invocations :
        NoRefreshOption(i) =>
            /\ inv[i].refreshes = 0
            /\ Returned(i) => Len(inv[i].sent) = 1
            /\ (Returned(i) /\ ~inv[i].response.threw /\ inv[i].response.status = 401)
               => (inv[i].result.status = 401 /\ ~Falsy(inv[i].result.error))

\* C16 (amended): such an invocation never calls refreshToken and issues at
\* most one physical request: exactly one, unless it requires authentication
\* and was refused for want of an access token, in which case it issues
\* none; a 401 response is returned as the result computed from that
\* response, with status 401 and a non-null error.
C16_AtMostOneRequest ==
    \A i \in Invocations :
        NoRefreshOption(i) =>
            /\ inv[i].refreshes = 0 /\ inv[i].role = "none" /\ inv[i].pc # "fetch2"
            /\ Len(inv[i].sent) <= 1
            /\ inv[i].sent = << >> <=> (Returned(i) /\ inv[i].result = AuthRequired)
            /\ inv[i].sent = << >> => inv[i].requiresAuth
            /\ (Returned(i) /\ inv[i].sent # << >> /\ ~inv[i].response.threw
                /\ inv[i].response.status = 401)
               => /\ inv[i].result = ParseResponse(inv[i].response, inv[i].response.body)
                  /\ inv[i].result.status = 401
                  /\ ~Falsy(inv[i].result.error)

\* An authenticated invocation that skips the refresh was answered 401 and
\* returned it.
C16_Witness ==
    \E i \in Invocations :
        /\ Returned(i) /\ inv[i].requiresAuth /\ inv[i].skipRefreshToken
        /\ Len(inv[i].sent) = 1 /\ inv[i].response.status = 401
        /\ inv[i].result.status = 401

\* The session: the part of the store that login, register, logout and the
\* refresh write.
Session(st) == << st.user, st.tokens, st.isAuthenticated >>

\* C17: the step in which an invocation made by a component returns without
\* having called refreshToken leaves user, tokens and isAuthenticated as
\* they were, whatever the response (2xx, 4xx/5xx, malformed body, transport
\* failure); and every step that changes them is the settlement of a
\* refresh exchange, a refresh refused for want of a refresh token, the
\* return of the request made by login, register or logout, or a logout
\* made while no access token is stored.
C17_PipelineOnlyReadsSession ==
    [][/\ \A i \in Invocations :
             (inv[i].pc = "fetch1" /\ inv'[i].pc = "done" /\ inv'[i].refreshes = 0
              /\ inv[i].caller = "api")
             => Session(store') = Session(store)
       /\ Session(store') # Session(store) =>
             \/ \E x \in exchanges : x \notin exchanges'
             \/ \E i \in Invocations :
                   inv[i].role = "none" /\ inv'[i].role = "starter"
             \/ \E i \in Invocations :
                   /\ inv[i].pc \in {"fetch1", "fetch2"} /\ inv'[i].pc = "done"
                   /\ inv[i].caller \in {"login", "register", "logout"}
             \/ (inv' = inv /\ GetAuthToken(store) = 0 /\ store' = Cleared(store))]_vars

\* A component's invocation was answered 500 with a malformed JSON body and
\* returned without a refresh; the session is still the one stored at start-up.
C17_Witness ==
    \E i \in Invocations :
        /\ Returned(i) /\ inv[i].caller = "api" /\ inv[i].refreshes = 0
        /\ inv[i].response.status = 500 /\ inv[i].response.body = BodyBad
        /\ inv[i].response.contentType = ApplicationJson
        /\ store = LoggedIn(1)

\* C18: the step in which logout completes (the request it made returns, or
\* it made none) leaves user and tokens absent and isAuthenticated false,
\* whatever the answer to POST users/logout was (2xx, 401 followed by a
\* failed or a successful refresh, another error status, a transport
\* failure); and logout posts users/logout only when an access token is
\* stored: called without one it clears the session in the same step and
\* makes no fetch.
C18_LogoutAlwaysClears ==
    [][/\ \A i \in Invocations :
             (inv[i].caller = "logout" /\ inv[i].pc # "done" /\ inv'[i].pc = "done")
             => Session(store') = Session(InitialStore)
       /\ \A i \in Invocations :
             (inv[i].pc = "new" /\ inv'[i].pc # "new" /\ inv'[i].caller = "logout")
             => GetAuthToken(store) # 0
       /\ (inv' = inv /\ store' # store)
             => /\ GetAuthToken(store) = 0
                /\ Session(store') = Session(InitialStore)
                /\ FetchCount' = FetchCount]_vars

\* POST users/logout was answered 401, the refresh succeeded, the retry was
\* answered too, and logout has completed with the session cleared.
C18_Witness ==
    \E i \in Invocations :
        /\ inv[i].caller = "logout" /\ Returned(i)
        /\ inv[i].refreshSuccess = "true" /\ Len(inv[i].sent) = 2
        /\ Session(store) = Session(InitialStore)

\* C22 (as claimed): the body of the final response is decoded as JSON
\* exactly when its Content-Type indicates JSON or its first character that
\* is not whitespace is "{", a response without a Content-Type header
\* included; in every other case the body is kept as opaque text.
C22_DecodesWhenJsonOrBrace ==
    \A i \in Invocations :
        Classified(i) =>
            LET r == inv[i].response
                claimedJson ==
                    IncludesJson(r.contentType) \/ StartsWithBrace(Trim(r.body))
                parsed == JSONParse(r.body)
            IN  inv[i].result.data =
                    IF claimedJson
                    THEN (IF parsed.threw THEN NullData ELSE parsed.value)
                    ELSE (IF r.body # EmptyStr
                          THEN [EmptyObject EXCEPT !.message = r.body]
                          ELSE NullData)

\* The text invocation i hands to the JSON decoder: the text read from the
\* first response, or the body of the final response when that text is empty.
DecodedText(i) ==
    IF inv[i].responseText # EmptyStr THEN inv[i].responseText ELSE inv[i].response.body

\* Invocation i attempted to decode a body as JSON and the decoder threw.
DecodeFailed(i) ==
    /\ Classified(i)
    /\ inv[i].response.contentType # Null
    /\ \/ IncludesJson(inv[i].response.contentType)
       \/ StartsWithBrace(Trim(inv[i].responseText))
    /\ JSONParse(DecodedText(i)).threw

\* C23: an invocation whose JSON decoding failed has returned a result (it
\* did not throw) with data = null, a non-null error and the HTTP status of
\* the response, for success and for error statuses; for a success status
\* the error is "Invalid JSON response".
C23_DecodeFailureIsAResult ==
    \A i \in Invocations :
        DecodeFailed(i) =>
            /\ Returned(i)
            /\ inv[i].result.data = NullData
            /\ ~Falsy(inv[i].result.error)
            /\ inv[i].result.status = inv[i].response.status
            /\ ResponseOk(inv[i].response)
               => inv[i].result.error = Lit("Invalid JSON response")

\* A 200 response announced as JSON held a malformed body.
C23_Witness ==
    \E i \in Invocations :
        /\ DecodeFailed(i)
        /\ inv[i].response.status = 200
        /\ inv[i].response.body = BodyBad
        /\ inv[i].result.status = 200

\* C24 (as claimed): the original request of an invocation that requires
\* authentication carries the access token stored when it is made, and the
\* retry made after a successful refresh carries the access token that the
\* refresh has just stored, whatever headers the caller supplied.
C24_RetryCarriesNewToken ==
    [][\A i \in Invocations :
          /\ (inv[i].pc = "new" /\ inv'[i].pc = "fetch1" /\ inv'[i].requiresAuth)
             => inv'[i].sent = << GetAuthToken(store) >>
          /\ (inv[i].pc = "refresh" /\ inv'[i].pc = "fetch2")
             => /\ GetAuthToken(store') # 0
                /\ inv'[i].sent = Append(inv[i].sent, GetAuthToken(store'))]_vars

\* The result handed to login or register counts as a failure.
LoginFailed(result) ==
    \/ ~Falsy(result.error)
    \/ result.data.tokens.accessToken = 0
    \/ result.data.user = NoUser

\* C28: login and register set isLoading and clear error when called and
\* touch nothing else; when their request returns a failure (an error
\* result, no access token, no user) they leave user, tokens and
\* isAuthenticated as they were, set a non-null error and isLoading false;
\* when it returns a session they store user, tokens and isAuthenticated =
\* true in that one step, with isLoading false.
C28_LoginFailureKeepsSession ==
    [][/\ \A i \in Invocations :
             (inv[i].pc = "new" /\ inv'[i].pc # "new"
              /\ inv'[i].caller \in {"login", "register"})
             => /\ Session(store') = Session(store)
                /\ store'.isLoading /\ store'.error = Null
       /\ \A i \in Invocations :
             (inv[i].caller \in {"login", "register"}
              /\ inv[i].pc # "done" /\ inv'[i].pc = "done")
             => LET result == inv'[i].result
                IN  IF LoginFailed(result)
                    THEN /\ Session(store') = Session(store)
                         /\ ~Falsy(store'.error)
                         /\ ~store'.isLoading
                    ELSE /\ Session(store') =
                               << result.data.user, result.data.tokens, TRUE >>
                         /\ store'.error = Null
                         /\ ~store'.isLoading]_vars

\* A login made on a stored session failed for want of a user in the
\* answer, and the stored session is still there.
C28_Witness ==
    \E i \in Invocations :
        /\ inv[i].caller \in {"login", "register"} /\ Returned(i)
        /\ Falsy(inv[i].result.error)
        /\ inv[i].result.data.tokens.accessToken # 0
        /\ inv[i].result.data.user = NoUser
        /\ Session(store) = Session(LoggedIn(1))
        /\ store.error = Lit("Invalid response data") /\ ~store.isLoading

--------------------------------------------------------------------------
(* Further properties of the pipeline (Spec).                              *)

\* C25 (as claimed): in every reachable state isAuthenticated is true
\* exactly when an access token is stored and exactly when a user is stored.
C25_AuthenticatedIffSession ==
    /\ store.isAuthenticated <=> GetAuthToken(store) # 0
    /\ store.isAuthenticated <=> store.user # NoUser

\* C26 (as claimed): invocations that were all sent with the same access
\* token cause at most one refresh exchange, whenever their 401 responses
\* arrive.
C26_OneExchangePerToken ==
    \A t \in TokenValues :
        (\A i \in Invocations :
            Called(i) => /\ inv[i].caller = "api"
                         /\ Len(inv[i].sent) > 0 /\ inv[i].sent[1] = t)
        => refreshCalls <= 1

\* C26 (amended): what an invocation's 401 does depends only on the
\* coordinator at the time it is handled, not on the token the request was
\* sent with.  While a refresh is in flight the invocation joins it and no
\* exchange is made; otherwise, earlier refreshes having settled or not
\* happened, it starts a new exchange with the refresh token then stored
\* (and none when no refresh token is stored).
C26_Late401StartsAnotherExchange ==
    [][\A i \in Invocations :
          (inv[i].pc = "fetch1" /\ inv'[i].refreshes > inv[i].refreshes) =>
              IF isRefreshing
              THEN /\ refreshCalls' = refreshCalls
                   /\ inv'[i].role = "joiner"
              ELSE IF GetRefreshToken(store) # 0
              THEN /\ refreshCalls' = refreshCalls + 1
                   /\ inv'[i].role = "starter"
                   /\ \E x \in exchanges' :
                         /\ x.refreshToken = GetRefreshToken(store)
                         /\ x.promise = inv'[i].awaits
              ELSE refreshCalls' = refreshCalls]_vars

\* Two invocations were sent with the same token; the refresh started by
\* the first settled true before the 401 of the second was handled, and the
\* second started another exchange.
C26_Witness ==
    \E i, j \in Invocations :
        /\ inv[i].caller = "api" /\ inv[j].caller = "api"
        /\ inv[i].sent # << >> /\ inv[j].sent # << >>
        /\ inv[i].sent[1] = inv[j].sent[1]
        /\ inv[i].role = "starter" /\ inv[i].refreshSuccess = "true"
        /\ inv[j].role = "starter" /\ ~inv[j].during
        /\ inv[j].awaits > inv[i].awaits
        /\ refreshCalls = 2

\* C30: whenever isRefreshing is true, refreshPromise is a promise, not
\* null, that has not settled and is the promise of the exchange in flight,
\* so a caller that joins is handed that pending promise and never null; and
\* between tasks isRefreshing is true exactly while a refresh exchange is
\* pending.
C30_FlagMeansPendingPromise ==
    /\ [](isRefreshing =>
            /\ refreshPromise # 0
            /\ promises[refreshPromise] = "pending"
            /\ exchanges = {x \in exchanges : x.promise = refreshPromise})
    /\ [](isRefreshing <=> Cardinality(exchanges) = 1)
    /\ [](~isRefreshing => exchanges = {})
    /\ [][\A i \in Invocations :
            (inv[i].role # "joiner" /\ inv'[i].role = "joiner")
            => /\ isRefreshing
               /\ inv'[i].awaits = refreshPromise
               /\ inv'[i].awaits # 0
               /\ promises'[inv'[i].awaits] = "pending"
               /\ inv'[i].pc = "refresh"]_vars

\* A caller has joined the refresh in flight: it and the starter await the
\* stored promise, which is pending.
C30_Witness ==
    /\ isRefreshing
    /\ refreshPromise # 0
    /\ promises[refreshPromise] = "pending"
    /\ \E i, j \in Invocations :
          /\ inv[i].role = "starter" /\ inv[i].awaits = refreshPromise
          /\ inv[j].role = "joiner" /\ inv[j].awaits = refreshPromise

--------------------------------------------------------------------------
(* Properties of the failure chain (ChainSpec).                            *)

\* No request and no refresh exchange is in flight and nobody waits.
Quiescent ==
    /\ \A i \in Invocations : inv[i].pc \in {"new", "done"}
    /\ exchanges = {}
    /\ requestsQueue = << >>

LogoutRequests == {i \in Invocations : Called(i) /\ inv[i].caller = "logout"}

\* C27: the chain refresh fails -> logout() -> POST users/logout -> 401 ->
\* refresh -> logout() ... ends.  From one invocation answered 401, with
\* every refresh rejected and every logout answered 401, at most two refresh
\* exchanges and two POST users/logout are ever made, and the system comes to
\* rest for good with nothing in flight, the session cleared and the
\* coordinator idle.
C27_FailureChainTerminates ==
    /\ [](refreshCalls <= 2 /\ Cardinality(LogoutRequests) <= 2)
    /\ [](FetchCount <= 5)
    /\ <>[](/\ Called(1)
            /\ Quiescent
            /\ ~isRefreshing
            /\ Session(store) = Session(InitialStore))

\* The chain has run to its end: two refresh exchanges were rejected, both
\* logout requests came back as failures, and the session is cleared.
C27_Witness ==
    /\ Quiescent /\ ~isRefreshing
    /\ refreshCalls = 2
    /\ Cardinality(LogoutRequests) = 2
    /\ \A i \in LogoutRequests : inv[i].result = AuthFailed
    /\ Session(store) = Session(InitialStore)

--------------------------------------------------------------------------
(* Properties of convertDraft (DraftSpec).                                 *)

LastUpdate(c) == c.calls[Len(c.calls)]

\* C29 (as claimed): whatever its sub-calls come to, convertDraft never
\* returns with the application left in 'processing': when it returns
\* false the last status update it issued asks for 'draft', and it returns
\* true only when the email was sent and the update to 'sent' succeeded.
C29_NeverLeftProcessing ==
    conversion.pc = "done" =>
        /\ conversion.serverStatus # "processing"
        /\ conversion.returned = "false" => LastUpdate(conversion).status = "draft"
        /\ conversion.returned = "true" =>
              /\ conversion.emailed
              /\ conversion.serverStatus = "sent"

--------------------------------------------------------------------------
(* Properties of the formatter (FormatSpec).                               *)

\* A full URL: the text begins with a scheme the client recognises.
IsFullUrl(e) == StartsWith(e, HttpScheme) \/ StartsWith(e, HttpsScheme)

\* C19 (as claimed): formatUrl applied to its own result returns it
\* unchanged, for every endpoint, and an endpoint that is a full URL is
\* returned unchanged.
C19_FormatUrlIdempotent ==
    /\ Len(urls) >= 2 => urls[2] = urls[1]
    /\ (Len(urls) >= 1 /\ IsFullUrl(endpoint)) => urls[1] = endpoint

\* C19 (amended): the same, provided the configured base URL itself begins
\* with "http"; every result then begins with "http".
C19_IdempotentUnderHttpBase ==
    /\ (Len(urls) >= 2 /\ StartsWith(API_URL, Http))
       => (urls[2] = urls[1] /\ StartsWith(urls[1], Http))
    /\ (Len(urls) >= 1 /\ IsFullUrl(endpoint)) => urls[1] = endpoint

\* formatUrl was applied twice to a relative endpoint under an absolute
\* base; the first application changed it, the second did not.
C19_Witness ==
    /\ Len(urls) = 2
    /\ API_URL = HostApi
    /\ endpoint = Slash \o Health
    /\ urls[1] # endpoint
    /\ urls[2] = urls[1]

\* C20 (as claimed): for an endpoint that is not a full URL, formatUrl
\* returns the base without its trailing slash, one slash, and the endpoint
\* without its leading slash; an endpoint and the same endpoint behind a
\* slash give the same URL; base http://host/api and endpoint /health give
\* http://host/api/health.
C20_JoinsBaseAndEndpoint ==
    (Len(urls) >= 1 /\ ~IsFullUrl(endpoint)) =>
        LET base == IF API_URL[Len(API_URL)] = "/"
                    THEN SubSeq(API_URL, 1, Len(API_URL) - 1) ELSE API_URL
            rest == IF endpoint # << >> /\ endpoint[1] = "/"
                    THEN SubSeq(endpoint, 2, Len(endpoint)) ELSE endpoint
        IN  /\ urls[1] = base \o Slash \o rest
            /\ (endpoint = << >> \/ endpoint[1] # "/")
               => FormatUrl(API_URL, Slash \o endpoint) = urls[1]
            /\ (API_URL = HostApi /\ endpoint = Slash \o Health)
               => urls[1] = HostApi \o Slash \o Health

--------------------------------------------------------------------------
(* Properties of formatApiPath (ApiPathSpec).                              *)

\* The number of places of s at which sub occurs.
Occurrences(s, sub) ==
    Cardinality({k \in 1..(Len(s) - Len(sub) + 1) : SubSeq(s, k, k + Len(sub) - 1) = sub})

\* C21 (as claimed): for a base URL ending with /api, ending with /api/ or
\* holding no API prefix, and a path with or without a leading slash, the
\* URL returned holds the /api prefix exactly once, followed at once by one
\* slash and the path.
C21_ApiPrefixExactlyOnce ==
    Len(urls) >= 1 =>
        LET rest == IF StartsWith(endpoint, Slash) THEN Tail(endpoint) ELSE endpoint
        IN  /\ Occurrences(urls[1], ApiPrefix) = 1
            /\ EndsWith(urls[1], ApiPrefix \o Slash \o rest)

====
